---------------------------- MODULE Spec2Model ----------------------------
(***************************************************************************)
(* ION-Bus Connect: the transfer-opportunity pipeline of                   *)
(* ion_bus_connect.py / build_transfer_index.py (one buffer radius) and    *)
(* of build_transfer_index_interactive.py (sweep over buffer radii).       *)
(*                                                                         *)
(* Clock strings are sequences of character codes: the digits '0'..'9'     *)
(* are 0..9 and ':' is 10, which keeps the code-point order of Python's    *)
(* string comparison ('9' < ':').  A missing cell (NaN) is NaN.            *)
(***************************************************************************)
EXTENDS Integers, Sequences, FiniteSets, TLC

VARIABLES
    stops,          \* stops.txt:      stop_id -> planar coordinate <<x, y>>,
                    \*                 or a missing / non-numeric cell
    stop_times,     \* stop_times.txt: set of rows (trip_id, stop_id, times)
    args,           \* buffer, transfer_time, time window, date
    pc,             \* position of the script
    ion_stops,      \* set of rail stop ids (the rows of the ion_stops frame)
    bus_stops,      \* set of bus stop ids
    ion_times,      \* filtered rail arrivals
    bus_times,      \* filtered bus departures
    nearby,         \* rows of the spatial join: <<bus_stop_id, ion_stop_id>>
    todo,           \* rows of nearby the loop has not visited yet
    transfers,      \* the list of transfer records
    output,         \* the transfer index: stop_id -> bus_xfer_routes
    dist_i,         \* sweep: index into distances
    transfer_data,  \* sweep: buffer distance -> transfer index
    temp_scripts,   \* generate_maps: distances whose temp_build_<dist>.py exists
    maps,           \* generate_maps: distances whose map html has been written
    index_page      \* generate_maps: distances the slider of index.html selects

vars == <<stops, stop_times, args, pc, ion_stops, bus_stops, ion_times,
          bus_times, nearby, todo, transfers, output, dist_i, transfer_data,
          temp_scripts, maps, index_page>>

-----------------------------------------------------------------------------
(* Bounds of the model *)

MaxIonRows == 2     \* stop_times rows of rail trips
MaxBusRows == 2     \* stop_times rows of bus trips

-----------------------------------------------------------------------------
(* Program constants *)

DEFAULT_BUFFER_METRES == 100
DEFAULT_MAX_TRANSFER_MINUTES == 6
MAX_TRANSFER_M == 6

Colon == 10
NaN == <<-1>>

\* "HH:MM:SS" written with two digits per field
Clock(h, m, s) ==
    << h \div 10, h % 10, Colon, m \div 10, m % 10, Colon, s \div 10, s % 10 >>

\* "2025-06-10" as <<year, month, day>>
DEFAULT_SERVICE_DATE == <<2025, 6, 10>>
DEFAULT_PEAK_START == Clock(7, 0, 0)
DEFAULT_PEAK_END == Clock(9, 0, 0)

\* range(50, 501, 50)
distances == [i \in 1..10 |-> 50 * i]

-----------------------------------------------------------------------------
(* Strings *)

Min(a, b) == IF a <= b THEN a ELSE b

IsDigit(c) == c \in 0..9

\* Python's s < t on str: the first differing character decides, a proper
\* prefix is smaller
StrLess(s, t) ==
    \/ \E i \in 1..Min(Len(s), Len(t)) :
          /\ \A j \in 1..(i - 1) : s[j] = t[j]
          /\ s[i] < t[i]
    \/ /\ Len(s) < Len(t)
       /\ \A j \in 1..Len(s) : s[j] = t[j]

StrLE(s, t) == s = t \/ StrLess(s, t)

notna(s) == s # NaN

\* .str.match(r'^\d{2}:\d{2}:\d{2}$', na=False)
MatchesClock(s) ==
    /\ notna(s)
    /\ Len(s) = 8
    /\ s[3] = Colon /\ s[6] = Colon
    /\ \A i \in {1, 2, 4, 5, 7, 8} : IsDigit(s[i])

Hours(s)   == 10 * s[1] + s[2]
Minutes(s) == 10 * s[4] + s[5]
Secs(s)    == 10 * s[7] + s[8]

\* pd.to_datetime(s, format='%H:%M:%S') returns a timestamp on 1900-01-01
\* when the fields are a time of day, and raises ValueError otherwise
ParsesAsTime(s) ==
    /\ MatchesClock(s)
    /\ Hours(s) <= 23 /\ Minutes(s) <= 59 /\ Secs(s) <= 59

\* seconds of the parsed timestamp after 1900-01-01 00:00:00
to_datetime(s) == 3600 * Hours(s) + 60 * Minutes(s) + Secs(s)

-----------------------------------------------------------------------------
(* Geometry *)

Abs(x) == IF x < 0 THEN -x ELSE x

\* GeoSeries.buffer(d) of a point, default resolution (16 segments per
\* quarter circle): the 64-sided polygon whose vertices lie on the circle
\* of radius d at the multiples of pi/32, the first at (x + d, y).  Its
\* edges have the outward normals at the odd multiples of pi/64; CosT[k]
\* is 10^6 * cos((2k - 1) * pi / 64), and sin of that angle is CosT[17 - k].
\* A buffer by d <= 0 is the empty polygon.
CosT == << 998795, 989177, 970031, 941544, 903989, 857729, 803208, 740951,
           671559, 595699, 514103, 427555, 336890, 242980, 146730, 49068 >>

\* predicate='disjoint': the point lies outside the buffer polygon
Disjoint(p, centre, d) ==
    LET dx == Abs(p[1] - centre[1])
        dy == Abs(p[2] - centre[2])
    IN  \E k \in 1..16 : dx * CosT[k] + dy * CosT[17 - k] > d * CosT[1]

\* a stop_lon / stop_lat cell that is empty (read as NaN) and one whose
\* text is not a number
MissingCoord == << >>
InvalidCoord == << 0 >>

\* the cell converts to a finite coordinate pair
IsPoint(p) == Len(p) = 2

\* predicate='within' of sjoin: the point lies in the interior of the
\* buffer polygon (a point on its boundary is not within); a point of NaN
\* coordinates is within nothing
Within(p, centre, d) ==
    /\ IsPoint(p) /\ IsPoint(centre)
    /\ LET dx == Abs(p[1] - centre[1])
           dy == Abs(p[2] - centre[2])
       IN  \A k \in 1..16 : dx * CosT[k] + dy * CosT[17 - k] < d * CosT[1]


-----------------------------------------------------------------------------
(* The loaded tables *)

\* calendar_dates.txt: the service runs on the default date only
calendar_dates == { [date |-> 20250610, service_id |-> "wk"] }

\* args.date.replace('-', '')
target_date(d) == d[1] * 10000 + d[2] * 100 + d[3]

\* calendar_dates[calendar_dates['date'] == target_date]['service_id'].unique()
ServiceIds(d) == { c.service_id : c \in {q \in calendar_dates : q.date = target_date(d)} }

\* trips.txt after the service filter: trip_id -> route_id
TripRoute ==
    [t \in {"ti1", "ti2", "tx1", "tx2", "ty1"} |->
        CASE t \in {"ti1", "ti2"} -> "301"
          [] t \in {"tx1", "tx2"} -> "X"
          [] OTHER                -> "Y"]

\* routes.txt: ION is route 301, buses are the routes of route_type 3
ion_routes == {"301"}
bus_routes == {"X", "Y"}

\* stop_times.merge(trips[['trip_id', 'route_id']], on='trip_id')
st_with_routes(rows) ==
    { [trip_id |-> r.trip_id, stop_id |-> r.stop_id, route_id |-> TripRoute[r.trip_id],
       arrival_time |-> r.arrival_time, departure_time |-> r.departure_time] :
      r \in {q \in rows : q.trip_id \in DOMAIN TripRoute} }

\* stop ids served by the trips of a mode (unfiltered stop_times), kept to
\* the stops of stops.txt
StopsOfMode(rows, table, routes) ==
    { r.stop_id : r \in {q \in st_with_routes(rows) : q.route_id \in routes} }
        \cap DOMAIN table

\* a mask without the comparison against the end of the window
InWindowFromStart(s, window) ==
    /\ notna(s)
    /\ MatchesClock(s)
    /\ StrLE(window[1], s)

\* the mask of the timetable filter: a cell that is present, has the shape
\* dd:dd:dd and compares (as a string) inside [start, end]
InWindow(s, window) ==
    /\ notna(s)
    /\ MatchesClock(s)
    /\ StrLE(window[1], s)
    /\ StrLE(s, window[2])

IonTimes(rows, window) ==
    { r \in st_with_routes(rows) :
        r.route_id \in ion_routes /\ InWindow(r.arrival_time, window) }

BusTimes(rows, window) ==
    { r \in st_with_routes(rows) :
        r.route_id \in bus_routes /\ InWindow(r.departure_time, window) }

-----------------------------------------------------------------------------
(* Proximity match *)

\* a join that falls back to the default radius when the radius is 0
NearbyDefaulted(table, busIds, ionIds, d) ==
    { <<b, i>> \in busIds \X ionIds :
        Within(table[b], table[i], IF d = 0 THEN DEFAULT_BUFFER_METRES ELSE d) }

\* a join that gives each bus stop to one rail stop only
NearbyFirstMatch(table, busIds, ionIds, d) ==
    { <<b, i>> \in busIds \X ionIds :
        /\ Within(table[b], table[i], d)
        /\ i = CHOOSE j \in ionIds : Within(table[b], table[j], d) }

\* ion_buffers = ion_stops.buffer(d); gpd.sjoin(bus_stops, ion_buffers,
\* predicate='within', how='inner'): one row per (bus stop, rail stop)
Nearby(table, busIds, ionIds, d) ==
    { <<b, i>> \in busIds \X ionIds : Within(table[b], table[i], d) }

-----------------------------------------------------------------------------
(* Temporal pairing *)

\* the orders in which the rows of a frame can be iterated
Orderings(S) ==
    { f \in [1..Cardinality(S) -> S] :
        \A i, j \in 1..Cardinality(S) : i # j => f[i] # f[j] }

\* a wait rule with the threshold comparison reversed
ValidTransferReversed(i_row, b_row, max_m) ==
    LET diff_seconds == to_datetime(b_row.departure_time) - to_datetime(i_row.arrival_time)
    IN  0 <= diff_seconds /\ diff_seconds >= 60 * max_m

\* a wait rule whose window is open at the threshold
ValidTransferOpenEnd(i_row, b_row, max_m) ==
    LET diff_seconds == to_datetime(b_row.departure_time) - to_datetime(i_row.arrival_time)
    IN  0 <= diff_seconds /\ diff_seconds < 60 * max_m

\* a wait rule that leaves out a departure at the instant of the arrival
ValidTransferStrictStart(i_row, b_row, max_m) ==
    LET diff_seconds == to_datetime(b_row.departure_time) - to_datetime(i_row.arrival_time)
    IN  0 < diff_seconds /\ diff_seconds <= 60 * max_m

\* 0 <= diff_minutes <= max_m with diff_minutes = total_seconds() / 60
ValidTransfer(i_row, b_row, max_m) ==
    LET ion_time == to_datetime(i_row.arrival_time)
        bus_time == to_datetime(b_row.departure_time)
        diff_seconds == bus_time - ion_time
    IN  0 <= diff_seconds /\ diff_seconds <= 60 * max_m

ion_arr(times, ion_stop_id) == { r \in times : r.stop_id = ion_stop_id }
bus_dep(times, bus_stop_id) == { r \in times : r.stop_id = bus_stop_id }

\* the nested loops over ion_arr and bus_dep raise as soon as a time that
\* is read does not parse; with both frames non-empty every row is read
\* unless an earlier one raised
PairRaises(arr, dep) ==
    /\ arr # {} /\ dep # {}
    /\ \/ \E r \in arr : ~ParsesAsTime(r.arrival_time)
       \/ \E r \in dep : ~ParsesAsTime(r.departure_time)

\* loops that stop at the first valid departure of each arrival
PairTransfersFirstMatch(ia, bd, ion_stop_id, max_m) ==
    LET ok(a, k) ==
            LET diff == to_datetime(bd[k].departure_time) - to_datetime(a.arrival_time)
            IN  0 <= diff /\ diff <= 60 * max_m
        hit(a) == CHOOSE k \in 1..Len(bd) :
                     ok(a, k) /\ \A j \in 1..(k - 1) : ~ok(a, j)
        arrs == SelectSeq(ia, LAMBDA a : \E k \in 1..Len(bd) : ok(a, k))
    IN  [k \in 1..Len(arrs) |->
            [ion_stop_id |-> ion_stop_id, bus_route_id |-> bd[hit(arrs[k])].route_id]]

\* the records the nested loops append for one row of nearby, with ion_arr
\* iterated in the order ia and bus_dep in the order bd
PairTransfers(ia, bd, ion_stop_id, max_m) ==
    LET n == Len(ia)
        m == Len(bd)
        combos == [k \in 1..(n * m) |->
                     << ia[((k - 1) \div m) + 1], bd[((k - 1) % m) + 1] >>]
        valid == SelectSeq(combos, LAMBDA c : ValidTransfer(c[1], c[2], max_m))
    IN  [k \in 1..Len(valid) |->
            [ion_stop_id |-> ion_stop_id, bus_route_id |-> valid[k][2].route_id]]

-----------------------------------------------------------------------------
(* Aggregation *)

SeqRange(s) == { s[k] : k \in 1..Len(s) }

\* a count of the runs of equal routes in list order (duplicates dropped
\* only when adjacent)
CountRuns(list, ion_stop_id) ==
    LET sel == SelectSeq(list, LAMBDA t : t.ion_stop_id = ion_stop_id)
    IN  Cardinality({ k \in 1..Len(sel) :
            k = 1 \/ sel[k].bus_route_id # sel[k - 1].bus_route_id })

\* a count of the records of a stop (count() in place of nunique())
CountRecords(list, ion_stop_id) ==
    Cardinality({ k \in 1..Len(list) : list[k].ion_stop_id = ion_stop_id })

\* transfers_df.groupby('ion_stop_id')['bus_route_id'].nunique()
nunique(list, ion_stop_id) ==
    Cardinality({ t.bus_route_id : t \in {u \in SeqRange(list) : u.ion_stop_id = ion_stop_id} })

xfer_counts(list) ==
    [s \in { t.ion_stop_id : t \in SeqRange(list) } |-> nunique(list, s)]

\* an inner merge (how='inner'): rail stops without a count are dropped
MergeInner(ionIds, counts) ==
    [s \in ionIds \cap DOMAIN counts |-> counts[s]]

\* ion_stops.merge(xfer_counts, on='stop_id', how='left') and fillna(0)
MergeLeft(ionIds, counts) ==
    [s \in ionIds |-> IF s \in DOMAIN counts THEN counts[s] ELSE 0]

\* a result without the zero-filled frame: only the stops that have a count
ResultLocNoFill(ionIds, counts) == counts

\* result = 0 on the index ion_stops['stop_id'];
\* result.loc[xfer_counts.index] = xfer_counts.values; to_dict()
ResultLoc(ionIds, counts) ==
    [s \in ionIds \cup DOMAIN counts |-> IF s \in DOMAIN counts THEN counts[s] ELSE 0]

-----------------------------------------------------------------------------
(* Inputs: the feeds and arguments the runs are checked on *)

Row(trip, stop, t) ==
    [trip_id |-> trip, stop_id |-> stop, arrival_time |-> t, departure_time |-> t]

BoundedSubsets(U, n) == { S \in SUBSET U : Cardinality(S) <= n }

\* rail stops R1, R2 and bus stops B1, B2 in the projected plane
StopsTable(p1, p2) ==
    [s \in {"R1", "R2", "B1", "B2"} |->
        CASE s = "R1" -> <<0, 0>>
          [] s = "R2" -> <<120, 0>>
          [] s = "B1" -> p1
          [] OTHER    -> p2]

\* B1 within 100 of R1 only, B2 within 100 of R1 and of R2
FixedStops == StopsTable(<<-30, 0>>, <<60, 0>>)

\* (50,0) is exactly 50 from R1; (47,17) is closer than 50 to R1 and lies
\* between the circle of radius 50 and its buffer polygon; (0,0) coincides
\* with R1; (60,0) is within 100 of both rail stops; (400,0) is far away
Points == { <<50, 0>>, <<47, 17>>, <<0, 0>>, <<60, 0>>, <<400, 0>> }

DefaultWindow == << DEFAULT_PEAK_START, DEFAULT_PEAK_END >>
NightWindow == << Clock(23, 0, 0), Clock(26, 0, 0) >>

\* --time 07:00 09:00, the form of the example in the help text
ShortWindow == << <<0, 7, Colon, 0, 0>>, <<0, 9, Colon, 0, 0>> >>

Args(b, m, w) ==
    [buffer |-> b, transfer_time |-> m, time |-> w, date |-> DEFAULT_SERVICE_DATE]

\* waits of -3, 0, 3, 6, 7 and 10 minutes between valid times
IonRowsWait ==
    { Row("ti1", "R1", Clock(7, 0, 0)), Row("ti2", "R1", Clock(7, 0, 0)),
      Row("ti2", "R1", Clock(7, 3, 0)), Row("ti1", "R2", Clock(7, 0, 0)) }
BusRowsWait ==
    { Row(x[1], x[2], t) :
        x \in { <<"tx1", "B1">>, <<"tx2", "B2">>, <<"ty1", "B2">> },
        t \in { Clock(7, 0, 0), Clock(7, 3, 0), Clock(7, 6, 0), Clock(7, 10, 0) } }

\* missing cells, a wrong shape ("7:03:00"), out-of-range fields
\* ("07:61:00") and times past midnight ("24:02:00")
IonRowsTimes ==
    { Row("ti1", "R1", t) :
        t \in { Clock(7, 0, 0), Clock(23, 58, 0), Clock(7, 61, 0), NaN } }
        \cup { Row("ti2", "R1", Clock(7, 0, 0)) }
BusRowsTimes ==
    { Row("tx1", "B1", t) :
        t \in { Clock(7, 3, 0), Clock(24, 2, 0), Clock(7, 61, 0),
                <<7, Colon, 0, 3, Colon, 0, 0>>, NaN } }
        \cup { Row("ty1", "B2", Clock(7, 3, 0)), Row("ty1", "B2", Clock(7, 61, 0)) }

IonRowsGeo == { Row("ti1", "R1", Clock(7, 0, 0)), Row("ti1", "R2", Clock(7, 0, 0)) }
BusRowsGeo ==
    { Row("tx1", "B1", Clock(7, 3, 0)), Row("tx2", "B2", Clock(7, 3, 0)),
      Row("ty1", "B2", Clock(7, 3, 0)) }

\* events before the start, at the start, near the end, at the end and
\* after the end of the default window
IonRowsWindow ==
    { Row("ti1", "R1", t) :
        t \in { Clock(6, 58, 0), Clock(7, 0, 0), Clock(8, 58, 0), Clock(9, 0, 0) } }
BusRowsWindow ==
    { Row("tx1", "B1", t) :
        t \in { Clock(6, 59, 0), Clock(7, 0, 0), Clock(9, 0, 0), Clock(9, 2, 0) } }
        \cup { Row("ty1", "B2", Clock(9, 2, 0)) }

Buffers == { -50, 0, 40, 50, DEFAULT_BUFFER_METRES }
TransferTimes == { -1, 0, DEFAULT_MAX_TRANSFER_MINUTES }

\* the state after the arguments are parsed and the feed is read
Start(table, rows, a) ==
    /\ stops = table
    /\ stop_times = rows
    /\ args = a
    /\ pc = "service"
    /\ ion_stops = {} /\ bus_stops = {}
    /\ ion_times = {} /\ bus_times = {}
    /\ nearby = {} /\ todo = {}
    /\ transfers = << >>
    /\ output = << >>
    /\ dist_i = 0
    /\ transfer_data = << >>
    /\ temp_scripts = {} /\ maps = {} /\ index_page = {}

InitWait ==
    \E ir \in BoundedSubsets(IonRowsWait, MaxIonRows),
       br \in BoundedSubsets(BusRowsWait, MaxBusRows),
       m \in { 0, DEFAULT_MAX_TRANSFER_MINUTES } :
        Start(FixedStops, ir \cup br, Args(DEFAULT_BUFFER_METRES, m, DefaultWindow))

InitTimes ==
    \E ir \in BoundedSubsets(IonRowsTimes, MaxIonRows),
       br \in BoundedSubsets(BusRowsTimes, MaxBusRows),
       w \in { DefaultWindow, NightWindow } :
        Start(FixedStops, ir \cup br,
              Args(DEFAULT_BUFFER_METRES, DEFAULT_MAX_TRANSFER_MINUTES, w))

InitGeometry ==
    \E ir \in BoundedSubsets(IonRowsGeo, MaxIonRows),
       br \in BoundedSubsets(BusRowsGeo, MaxBusRows),
       p1 \in Points, p2 \in Points,
       b \in Buffers, m \in { -1, DEFAULT_MAX_TRANSFER_MINUTES } :
        Start(StopsTable(p1, p2), ir \cup br, Args(b, m, DefaultWindow))

\* a date without service (25 December)
InitService ==
    \E ir \in BoundedSubsets(IonRowsGeo, MaxIonRows),
       br \in BoundedSubsets(BusRowsGeo, MaxBusRows),
       p2 \in { <<60, 0>>, <<400, 0>> } :
        Start(StopsTable(<<-30, 0>>, p2), ir \cup br,
              [Args(DEFAULT_BUFFER_METRES, DEFAULT_MAX_TRANSFER_MINUTES, DefaultWindow)
                 EXCEPT !.date = <<2025, 12, 25>>])

\* a stop whose coordinate cell is missing or is not a number
InitCoords ==
    \E ir \in BoundedSubsets(IonRowsGeo, MaxIonRows),
       br \in BoundedSubsets(BusRowsGeo, MaxBusRows),
       p1 \in { MissingCoord, InvalidCoord }, p2 \in { <<60, 0>>, MissingCoord } :
        Start(StopsTable(p1, p2), ir \cup br,
              Args(DEFAULT_BUFFER_METRES, DEFAULT_MAX_TRANSFER_MINUTES, DefaultWindow))

\* events around the ends of the window, window given as HH:MM:SS or HH:MM
InitWindow ==
    \E ir \in BoundedSubsets(IonRowsWindow, MaxIonRows),
       br \in BoundedSubsets(BusRowsWindow, MaxBusRows),
       w \in { DefaultWindow, ShortWindow } :
        Start(FixedStops, ir \cup br,
              Args(DEFAULT_BUFFER_METRES, DEFAULT_MAX_TRANSFER_MINUTES, w))

Init ==
    InitWait \/ InitTimes \/ InitGeometry \/ InitService \/ InitCoords \/ InitWindow

-----------------------------------------------------------------------------
(* The single-radius script: main() of ion_bus_connect.py *)

\* the service ids of the date; without any the script exits with status 1
CheckService ==
    /\ pc = "service"
    /\ pc' = IF ServiceIds(args.date) = {} THEN "exit" ELSE "filter"
    /\ UNCHANGED <<stops, stop_times, args, ion_stops, bus_stops, ion_times,
                   bus_times, nearby, todo, transfers, output, dist_i,
                   transfer_data, temp_scripts, maps, index_page>>

\* stops of each mode and the timetables filtered to the time window;
\* astype(float) raises on a coordinate cell that is not a number
FilterTimetables ==
    /\ pc = "filter"
    /\ ion_stops' = StopsOfMode(stop_times, stops, ion_routes)
    /\ bus_stops' = StopsOfMode(stop_times, stops, bus_routes)
    /\ ion_times' = IonTimes(stop_times, args.time)
    /\ bus_times' = BusTimes(stop_times, args.time)
    /\ pc' = IF \E s \in ion_stops' \cup bus_stops' : stops[s] = InvalidCoord
               THEN "error" ELSE "sjoin"
    /\ UNCHANGED <<stops, stop_times, args, nearby, todo, transfers, output,
                   dist_i, transfer_data, temp_scripts, maps, index_page>>

\* buffer the rail stops by args.buffer and join the bus stops within
SpatialJoin ==
    /\ pc = "sjoin"
    /\ nearby' = Nearby(stops, bus_stops, ion_stops, args.buffer)
    /\ todo' = nearby'
    /\ transfers' = << >>
    /\ pc' = "pairs"
    /\ UNCHANGED <<stops, stop_times, args, ion_stops, bus_stops, ion_times,
                   bus_times, output, dist_i, transfer_data, temp_scripts, maps, index_page>>

\* one iteration of `for _, row in nearby.iterrows()`, rows in any order
ProcessPair ==
    /\ pc = "pairs"
    /\ \E row \in todo :
        LET arr == ion_arr(ion_times, row[2])
            dep == bus_dep(bus_times, row[1])
        IN  \/ /\ (arr = {} \/ dep = {})
               /\ todo' = todo \ {row}
               /\ UNCHANGED <<transfers, pc>>
            \/ /\ PairRaises(arr, dep)
               /\ pc' = "error"
               /\ UNCHANGED <<transfers, todo>>
            \/ /\ arr # {} /\ dep # {}
               /\ ~PairRaises(arr, dep)
               /\ \E ia \in Orderings(arr), bd \in Orderings(dep) :
                    transfers' = transfers \o
                        PairTransfers(ia, bd, row[2], args.transfer_time)
               /\ todo' = todo \ {row}
               /\ UNCHANGED pc
    /\ UNCHANGED <<stops, stop_times, args, ion_stops, bus_stops, ion_times,
                   bus_times, nearby, output, dist_i, transfer_data, temp_scripts, maps, index_page>>

\* distinct routes per rail stop, left-merged onto the rail stops
Aggregate ==
    /\ pc = "pairs"
    /\ todo = {}
    /\ output' = MergeLeft(ion_stops,
                    IF transfers # << >> THEN xfer_counts(transfers) ELSE << >>)
    /\ pc' = "done"
    /\ UNCHANGED <<stops, stop_times, args, ion_stops, bus_stops, ion_times,
                   bus_times, nearby, todo, transfers, dist_i, transfer_data, temp_scripts, maps, index_page>>

Next == CheckService \/ FilterTimetables \/ SpatialJoin \/ ProcessPair \/ Aggregate

Spec == Init /\ [][Next]_vars

-----------------------------------------------------------------------------
(* The sweep: main() of build_transfer_index_interactive.py calls          *)
(* calculate_transfers_for_distance for each of distances, over the same   *)
(* frames; its pairing loop is the loop of ProcessPair with MAX_TRANSFER_M *)

BusRowsSweep == BusRowsGeo \cup { Row("tx1", "B2", Clock(7, 61, 0)) }

InitSweep ==
    \E ir \in BoundedSubsets(IonRowsGeo, MaxIonRows),
       br \in BoundedSubsets(BusRowsSweep, MaxBusRows),
       p1 \in Points, p2 \in Points :
        /\ stops = StopsTable(p1, p2)
        /\ stop_times = ir \cup br
        /\ args = Args(0, MAX_TRANSFER_M, DefaultWindow)
        /\ pc = "filter"
        /\ ion_stops = {} /\ bus_stops = {}
        /\ ion_times = {} /\ bus_times = {}
        /\ nearby = {} /\ todo = {}
        /\ transfers = << >>
        /\ output = << >>
        /\ dist_i = 1
        /\ transfer_data = << >>
        /\ temp_scripts = {} /\ maps = {} /\ index_page = {}

\* an entry that keeps appending to the transfers list of the radius before
CallForDistanceCarry ==
    /\ pc = "sjoin"
    /\ dist_i \in DOMAIN distances
    /\ args' = [args EXCEPT !.buffer = distances[dist_i]]
    /\ nearby' = Nearby(stops, bus_stops, ion_stops, distances[dist_i])
    /\ todo' = nearby'
    /\ pc' = "pairs"
    /\ UNCHANGED <<stops, stop_times, ion_stops, bus_stops, ion_times,
                   bus_times, transfers, output, dist_i, transfer_data, temp_scripts, maps, index_page>>

\* entry of calculate_transfers_for_distance(..., buffer_m = dist): buffer
\* a copy of the rail stops, join, start with an empty transfers list
CallForDistance ==
    /\ pc = "sjoin"
    /\ dist_i \in DOMAIN distances
    /\ args' = [args EXCEPT !.buffer = distances[dist_i]]
    /\ nearby' = Nearby(stops, bus_stops, ion_stops, distances[dist_i])
    /\ todo' = nearby'
    /\ transfers' = << >>
    /\ pc' = "pairs"
    /\ UNCHANGED <<stops, stop_times, ion_stops, bus_stops, ion_times,
                   bus_times, output, dist_i, transfer_data, temp_scripts, maps, index_page>>

\* the aggregation of calculate_transfers_for_distance and the store of its
\* result in transfer_data[dist]; the loop goes on to the next distance
ReturnResult ==
    /\ pc = "pairs"
    /\ todo = {}
    /\ transfer_data' = (distances[dist_i] :>
            ResultLoc(ion_stops,
                IF transfers # << >> THEN xfer_counts(transfers) ELSE << >>))
            @@ transfer_data
    /\ IF dist_i = Len(distances)
         THEN pc' = "done" /\ UNCHANGED dist_i
         ELSE pc' = "sjoin" /\ dist_i' = dist_i + 1
    /\ UNCHANGED <<stops, stop_times, args, ion_stops, bus_stops, ion_times,
                   bus_times, nearby, todo, transfers, output,
                   temp_scripts, maps, index_page>>

NextSweep == FilterTimetables \/ CallForDistance \/ ProcessPair \/ ReturnResult

SpecSweep == InitSweep /\ [][NextSweep]_vars

-----------------------------------------------------------------------------
(* The script-per-distance sweep: generate_maps.py writes a copy of        *)
(* build_transfer_index.py for each distance, runs it and removes it, then *)
(* writes the index page                                                   *)

\* BUFFER_METRES of build_transfer_index.py, the text generate_maps replaces
BUFFER_METRES == 100

\* the run of build_transfer_index.py with BUFFER_METRES = r ends in an
\* exception: a coordinate cell that is not a number, or a time that does
\* not parse at a candidate pair with events on both sides
BuildRaises(r) ==
    \/ \E s \in StopsOfMode(stop_times, stops, ion_routes)
                 \cup StopsOfMode(stop_times, stops, bus_routes) :
          stops[s] = InvalidCoord
    \/ \E p \in Nearby(stops, StopsOfMode(stop_times, stops, bus_routes),
                        StopsOfMode(stop_times, stops, ion_routes), r) :
          PairRaises(ion_arr(IonTimes(stop_times, args.time), p[2]),
                     bus_dep(BusTimes(stop_times, args.time), p[1]))

\* the run writes ion_transfer_map_<r>m.html: it reaches the output step
\* and the index has at least one row (`if len(output) > 0`)
BuildWritesMap(r) ==
    ~BuildRaises(r) /\ StopsOfMode(stop_times, stops, ion_routes) # {}

\* <input type="range" min="50" max="500" step="50">
SliderValues == { v \in 50..500 : (v - 50) % 50 = 0 }

InitMaps ==
    \E ir \in BoundedSubsets(IonRowsGeo, MaxIonRows),
       br \in BoundedSubsets(BusRowsSweep, MaxBusRows),
       p1 \in Points, p2 \in Points :
        /\ stops = StopsTable(p1, p2)
        /\ stop_times = ir \cup br
        /\ args = Args(BUFFER_METRES, MAX_TRANSFER_M, DefaultWindow)
        /\ pc = "generate"
        /\ ion_stops = {} /\ bus_stops = {}
        /\ ion_times = {} /\ bus_times = {}
        /\ nearby = {} /\ todo = {}
        /\ transfers = << >>
        /\ output = << >>
        /\ dist_i = 1
        /\ transfer_data = << >>
        /\ temp_scripts = {} /\ maps = {} /\ index_page = {}

\* write temp_build_<dist>.py with BUFFER_METRES and the output paths
\* replaced and run it; a non-zero return code is printed and nothing else
RunTempScript ==
    /\ pc = "generate"
    /\ dist_i \in DOMAIN distances
    /\ temp_scripts' = temp_scripts \cup { distances[dist_i] }
    /\ maps' = IF BuildWritesMap(distances[dist_i])
                 THEN maps \cup { distances[dist_i] } ELSE maps
    /\ pc' = "unlink"
    /\ UNCHANGED <<stops, stop_times, args, ion_stops, bus_stops, ion_times,
                   bus_times, nearby, todo, transfers, output, dist_i,
                   transfer_data, index_page>>

\* temp_script.unlink(); the loop goes on to the next distance
UnlinkTempScript ==
    /\ pc = "unlink"
    /\ temp_scripts' = temp_scripts \ { distances[dist_i] }
    /\ IF dist_i = Len(distances)
         THEN pc' = "index" /\ UNCHANGED dist_i
         ELSE pc' = "generate" /\ dist_i' = dist_i + 1
    /\ UNCHANGED <<stops, stop_times, args, ion_stops, bus_stops, ion_times,
                   bus_times, nearby, todo, transfers, output, transfer_data,
                   maps, index_page>>

\* write output/index.html, whose slider loads ion_transfer_map_<v>m.html
WriteIndexPage ==
    /\ pc = "index"
    /\ index_page' = SliderValues
    /\ pc' = "done"
    /\ UNCHANGED <<stops, stop_times, args, ion_stops, bus_stops, ion_times,
                   bus_times, nearby, todo, transfers, output, dist_i,
                   transfer_data, temp_scripts, maps>>

NextMaps == RunTempScript \/ UnlinkTempScript \/ WriteIndexPage

SpecMaps == InitMaps /\ [][NextMaps]_vars

-----------------------------------------------------------------------------
(* Properties *)

\* the rows of nearby the pairing loop has completed
Processed == IF pc \in {"pairs", "done", "error"} THEN nearby \ todo ELSE {}

\* the records of the transfers list for one rail stop
RecordsOf(s) == { k \in 1..Len(transfers) : transfers[k].ion_stop_id = s }

\* elapsed seconds since service-day midnight of a clock string HH:MM:SS
ElapsedSeconds(t) == 3600 * Hours(t) + 60 * Minutes(t) + Secs(t)

RailStops == StopsOfMode(stop_times, stops, ion_routes)
BusStops == StopsOfMode(stop_times, stops, bus_routes)

\* a rail or bus stop of the feed has a coordinate cell that is not a number
CoordinateRaises == \E s \in RailStops \cup BusStops : stops[s] = InvalidCoord

\* C1 (totality): the index the aggregation step produces has exactly the
\* input rail stops as its keys, and a rail stop without any opportunity
\* record is present with count 0.
C1_Totality ==
    pc = "done" =>
        /\ DOMAIN output = RailStops
        /\ \A s \in RailStops : RecordsOf(s) = {} => output[s] = 0

\* a finished run in which one rail stop has a positive count and another
\* rail stop has no opportunity record
C1_Witness ==
    /\ pc = "done"
    /\ \E s1, s2 \in RailStops :
          /\ RecordsOf(s1) = {} /\ output[s1] = 0
          /\ RecordsOf(s2) # {} /\ output[s2] > 0

\* C2 (distinct-route count): for every rail stop the reported count is
\* the number of distinct bus route ids among the stop's opportunity
\* records, however many records a route has.
C2_DistinctRoutes ==
    pc = "done" =>
        \A s \in DOMAIN output :
            output[s] = Cardinality({ transfers[k].bus_route_id : k \in RecordsOf(s) })

\* two bus stops of the same route are matched to one rail stop, each has
\* a qualifying departure, and the stop's count is 1
C2_Witness ==
    /\ pc = "done"
    /\ \E s \in DOMAIN output :
       \E d1, d2 \in bus_times :
          /\ d1.stop_id # d2.stop_id
          /\ d1.route_id = d2.route_id
          /\ <<d1.stop_id, s>> \in nearby /\ <<d2.stop_id, s>> \in nearby
          /\ \E a \in ion_arr(ion_times, s) :
                /\ ValidTransfer(a, d1, args.transfer_time)
                /\ ValidTransfer(a, d2, args.transfer_time)
          /\ Cardinality(RecordsOf(s)) >= 2
          /\ output[s] = 1

\* the (bus stop, arrival, departure) combinations at the completed pairs
\* of rail stop s and route r whose wait is inside [0, max_m] minutes
QualifyingCombos(s, r, max_m) ==
    { c \in (bus_stops \X ion_times) \X bus_times :
        /\ <<c[1][1], s>> \in Processed
        /\ c[1][2].stop_id = s
        /\ c[2].stop_id = c[1][1]
        /\ c[2].route_id = r
        /\ 0 <= ElapsedSeconds(c[2].departure_time) - ElapsedSeconds(c[1][2].arrival_time)
        /\ ElapsedSeconds(c[2].departure_time) - ElapsedSeconds(c[1][2].arrival_time)
                <= 60 * max_m }

\* C3 (wait-time rule): at every completed pair, an opportunity record is
\* emitted for an arrival a and a departure d exactly when
\* 0 <= (d - a)/60 <= max_transfer_minutes: for each rail stop and route the
\* transfers list holds one record per combination inside the closed window
\* and none for any other combination.
C3_WaitRule ==
    \A s \in ion_stops : \A r \in bus_routes :
        Cardinality({ k \in RecordsOf(s) : transfers[k].bus_route_id = r })
            = Cardinality(QualifyingCombos(s, r, args.transfer_time))

\* a finished run whose completed pairs hold a departure at the instant of
\* the arrival, one exactly max_transfer_minutes later and one before the
\* arrival, with records emitted
C3_Witness ==
    /\ pc = "done"
    /\ args.transfer_time > 0
    /\ transfers # << >>
    /\ \E p \in Processed :
       \E a1, a2 \in ion_arr(ion_times, p[2]) :
       \E d1, d2 \in bus_dep(bus_times, p[1]) :
          /\ ElapsedSeconds(d1.departure_time) = ElapsedSeconds(a1.arrival_time)
          /\ ElapsedSeconds(d2.departure_time)
                = ElapsedSeconds(a1.arrival_time) + 60 * args.transfer_time
          /\ ElapsedSeconds(d1.departure_time) < ElapsedSeconds(a2.arrival_time)

\* the square of the planar distance between two stops
DistanceSquared(p, q) == (p[1] - q[1]) * (p[1] - q[1]) + (p[2] - q[2]) * (p[2] - q[2])

\* C4 (proximity match): the candidate pairs for the radius are exactly the
\* (rail stop, bus stop) pairs whose planar distance is strictly less than
\* the radius.
C4_StrictDisc ==
    (pc \in {"pairs", "done", "error"} /\ ~CoordinateRaises) =>
        nearby = { <<b, i>> \in bus_stops \X ion_stops :
                     /\ args.buffer > 0
                     /\ IsPoint(stops[b]) /\ IsPoint(stops[i])
                     /\ DistanceSquared(stops[b], stops[i]) < args.buffer * args.buffer }

\* C5 (monotonicity in radius): over the sweep, every candidate pair of a
\* smaller radius is a candidate pair of the larger radius being evaluated,
\* and no rail stop's count at a larger radius is below its count at a
\* smaller one.
C5_RadiusMonotone ==
    /\ \A r1 \in DOMAIN transfer_data :
          (pc = "pairs" /\ r1 < args.buffer) =>
              Nearby(stops, bus_stops, ion_stops, r1) \subseteq nearby
    /\ \A r1, r2 \in DOMAIN transfer_data :
          r1 < r2 =>
              \A s \in DOMAIN transfer_data[r1] :
                  transfer_data[r1][s] <= transfer_data[r2][s]

\* a finished sweep in which a rail stop's count grows from 0 at 50 to 1 at
\* a middle radius and to 2 at 500
C5_Witness ==
    /\ pc = "done"
    /\ DOMAIN transfer_data = { distances[i] : i \in DOMAIN distances }
    /\ \E s \in ion_stops : \E r \in DOMAIN transfer_data :
          /\ transfer_data[50][s] = 0
          /\ transfer_data[r][s] = 1
          /\ transfer_data[500][s] = 2

\* the routes with a combination valid under threshold t at the completed
\* pairs of rail stop s
RoutesAt(s, t) ==
    { d.route_id : d \in
        { d \in bus_times :
            /\ <<d.stop_id, s>> \in Processed
            /\ \E a \in ion_arr(ion_times, s) : ValidTransfer(a, d, t) } }

\* C6 (monotonicity in the wait threshold): in a finished run with
\* threshold t2, every combination that is valid under a smaller threshold
\* t1 >= 0 is valid under t2, and the number of routes valid under t1 at a
\* rail stop is at most the stop's reported count.
C6_ThresholdMonotone ==
    pc = "done" =>
        \A t1 \in 0..(args.transfer_time - 1) :
            /\ \A p \in Processed :
               \A a \in ion_arr(ion_times, p[2]) : \A d \in bus_dep(bus_times, p[1]) :
                  ValidTransfer(a, d, t1) => ValidTransfer(a, d, args.transfer_time)
            /\ \A s \in DOMAIN output :
                  Cardinality(RoutesAt(s, t1)) <= output[s]

\* a finished run with threshold 6 where a rail stop has one route at
\* threshold 0 and a reported count of 2
C6_Witness ==
    /\ pc = "done"
    /\ args.transfer_time = 6
    /\ \E s \in DOMAIN output :
          Cardinality(RoutesAt(s, 0)) = 1 /\ output[s] = 2

\* a clock string HH:MM:SS that is a valid elapsed time at or after 24:00:00
PostMidnight(t) ==
    MatchesClock(t) /\ Hours(t) >= 24 /\ Minutes(t) <= 59 /\ Secs(t) <= 59

\* a clock string HH:MM:SS that is a valid elapsed time
ElapsedTime(t) == MatchesClock(t) /\ Minutes(t) <= 59 /\ Secs(t) <= 59

\* the index from the events that are valid elapsed times, by
\* elapsed-seconds arithmetic
ElapsedIndex ==
    [s \in RailStops |->
        Cardinality({ d.route_id : d \in
            { d \in bus_times :
                /\ ElapsedTime(d.departure_time)
                /\ <<d.stop_id, s>> \in nearby
                /\ \E a \in ion_arr(ion_times, s) :
                      /\ ElapsedTime(a.arrival_time)
                      /\ 0 <= ElapsedSeconds(d.departure_time) - ElapsedSeconds(a.arrival_time)
                      /\ ElapsedSeconds(d.departure_time) - ElapsedSeconds(a.arrival_time)
                            <= 60 * args.transfer_time } })]

\* C7 (post-midnight times): a run whose events inside the analysis window
\* are all valid elapsed times, some of them at or after 24:00:00, does not
\* abort, and its index is the one elapsed-seconds arithmetic gives.
C7_PostMidnightAccepted ==
    ( /\ ~CoordinateRaises
      /\ \A r \in ion_times : ElapsedTime(r.arrival_time)
      /\ \A r \in bus_times : ElapsedTime(r.departure_time) ) =>
        /\ pc # "error"
        /\ pc = "done" => output = ElapsedIndex

\* the index as a function of the inputs alone: for each rail stop the
\* routes with a departure in the window, at a bus stop within the buffer,
\* that is a valid transfer from an arrival in the window
OrderFreeIndex ==
    [s \in RailStops |->
        Cardinality({ d.route_id : d \in
            { d \in BusTimes(stop_times, args.time) :
                /\ Within(stops[d.stop_id], stops[s], args.buffer)
                /\ \E a \in IonTimes(stop_times, args.time) :
                      a.stop_id = s /\ ValidTransfer(a, d, args.transfer_time) } })]

\* some candidate pair with events on both sides holds a time that does
\* not parse
SomePairRaises ==
    \E p \in Nearby(stops, StopsOfMode(stop_times, stops, bus_routes), RailStops, args.buffer) :
        PairRaises(ion_arr(IonTimes(stop_times, args.time), p[2]),
                   bus_dep(BusTimes(stop_times, args.time), p[1]))

\* C8 (order-independence): whatever the order in which the candidate
\* pairs, the arrivals and the departures are iterated, a run ends the same
\* way, and a finished run's index is the same function of the inputs.
C8_OrderIndependent ==
    /\ pc = "done" => (output = OrderFreeIndex /\ ~SomePairRaises /\ ~CoordinateRaises)
    /\ pc = "error" => (SomePairRaises \/ CoordinateRaises)

\* a finished run whose list holds records of two candidate pairs for one
\* rail stop, the later pair's route first in this order
C8_Witness ==
    /\ pc = "done"
    /\ Cardinality(nearby) >= 2
    /\ Len(transfers) >= 3
    /\ \E k \in 2..Len(transfers) :
          /\ transfers[k].ion_stop_id = transfers[1].ion_stop_id
          /\ transfers[k].bus_route_id = "X"
          /\ transfers[1].bus_route_id = "Y"

\* C9 (invalid parameters): a run given a negative buffer radius or a
\* negative max transfer minutes produces no transfer index.
C9_InvalidRejected ==
    (args.buffer < 0 \/ args.transfer_time < 0) => pc # "done"

\* C10 (malformed or missing times): a run whose clock strings are each
\* missing, malformed or a time of day completes, and its index is the one
\* computed from the events that are times of day alone.
C10_MalformedNotFatal ==
    ( /\ ~CoordinateRaises
      /\ \A r \in stop_times : ~PostMidnight(r.arrival_time) /\ ~PostMidnight(r.departure_time) ) =>
        /\ pc # "error"
        /\ pc = "done" =>
              output = [s \in RailStops |->
                  Cardinality({ d.route_id : d \in
                      { d \in bus_times :
                          /\ ParsesAsTime(d.departure_time)
                          /\ <<d.stop_id, s>> \in nearby
                          /\ \E a \in ion_arr(ion_times, s) :
                                /\ ParsesAsTime(a.arrival_time)
                                /\ ValidTransfer(a, d, args.transfer_time) } })]

\* C11 (empty schedule): a run for a day without service still ends with
\* an index, and an index made from an empty arrival or departure
\* timetable gives every rail stop the count 0.
C11_EmptySchedule ==
    /\ pc # "exit"
    /\ (pc = "done" /\ (ion_times = {} \/ bus_times = {})) =>
          (DOMAIN output = RailStops /\ \A s \in RailStops : output[s] = 0)

\* C12 (missing or invalid coordinate): a run whose times all parse does
\* not abort when a stop's coordinate is missing or is not a number, and
\* such a stop is in no candidate pair.
C12_BadCoordinateExcluded ==
    ~SomePairRaises =>
        /\ pc # "error"
        /\ \A p \in nearby : IsPoint(stops[p[1]]) /\ IsPoint(stops[p[2]])

\* no bus stop of the feed has the coordinate of a rail stop
NoCoincidentStops == \A b \in BusStops : \A i \in RailStops : stops[b] # stops[i]

\* C13 (zero radius): with buffer 0 and no bus stop at the coordinate of a
\* rail stop, the spatial join has no row and every rail stop's count is 0.
C13_ZeroRadius ==
    (args.buffer = 0 /\ NoCoincidentStops) =>
        /\ pc \in {"pairs", "done", "error"} => nearby = {}
        /\ pc = "done" => \A s \in DOMAIN output : output[s] = 0

\* a finished run with buffer 0 over a rail stop with an arrival and a bus
\* stop 50 away or nearer with a departure 3 minutes later, all counts 0
C13_Witness ==
    /\ pc = "done"
    /\ args.buffer = 0 /\ args.transfer_time = DEFAULT_MAX_TRANSFER_MINUTES
    /\ NoCoincidentStops
    /\ \E a \in ion_times : \E d \in bus_times :
          /\ DistanceSquared(stops[d.stop_id], stops[a.stop_id]) <= 50 * 50
          /\ ValidTransfer(a, d, args.transfer_time)
    /\ \A s \in DOMAIN output : output[s] = 0

\* the (bus stop, arrival, departure) combinations at the completed pairs
\* of rail stop s and route r with the departure at the second of the
\* arrival
SameSecondCombos(s, r) ==
    { c \in (bus_stops \X ion_times) \X bus_times :
        /\ <<c[1][1], s>> \in Processed
        /\ c[1][2].stop_id = s
        /\ c[2].stop_id = c[1][1]
        /\ c[2].route_id = r
        /\ ElapsedSeconds(c[2].departure_time) = ElapsedSeconds(c[1][2].arrival_time) }

\* C14 (zero threshold): with max transfer minutes 0, the records of a
\* rail stop and a route are as many as the combinations at the completed
\* pairs whose departure is at the same elapsed second as the arrival.
C14_ZeroThreshold ==
    args.transfer_time = 0 =>
        \A s \in ion_stops : \A r \in bus_routes :
            Cardinality({ k \in RecordsOf(s) : transfers[k].bus_route_id = r })
                = Cardinality(SameSecondCombos(s, r))

\* a finished run with threshold 0 where a rail stop counts the one route
\* that leaves at the second of the arrival and not the route of a matched
\* bus stop that leaves 3 minutes later
C14_Witness ==
    /\ pc = "done"
    /\ args.transfer_time = 0
    /\ \E s \in DOMAIN output :
          /\ output[s] = 1
          /\ \E a \in ion_arr(ion_times, s) : \E d \in bus_times :
                /\ <<d.stop_id, s>> \in nearby
                /\ ElapsedSeconds(d.departure_time) = ElapsedSeconds(a.arrival_time) + 180
                /\ \A k \in RecordsOf(s) : transfers[k].bus_route_id # d.route_id

\* the (row of nearby, arrival, departure) combinations at the completed
\* pairs that satisfy the wait rule
AllQualifyingCombos ==
    { c \in (Processed \X ion_times) \X bus_times :
        /\ c[1][2].stop_id = c[1][1][2]
        /\ c[2].stop_id = c[1][1][1]
        /\ 0 <= ElapsedSeconds(c[2].departure_time) - ElapsedSeconds(c[1][2].arrival_time)
        /\ ElapsedSeconds(c[2].departure_time) - ElapsedSeconds(c[1][2].arrival_time)
                <= 60 * args.transfer_time }

\* 'total_transfer_opportunities' of the summary
total_transfer_opportunities == IF transfers # << >> THEN Len(transfers) ELSE 0

\* C15 (no deduplication in pairing): the transfers list holds one record
\* per (candidate pair, arrival, departure) combination that satisfies the
\* wait rule, the reported total is the number of those combinations, and
\* a rail stop's count is at most the number of its records.
C15_NoDedupInPairing ==
    /\ total_transfer_opportunities = Cardinality(AllQualifyingCombos)
    /\ pc = "done" =>
          \A s \in DOMAIN output : output[s] <= Cardinality(RecordsOf(s))

\* a finished run where one route at one candidate pair has at least three
\* qualifying combinations, all recorded, and the stop's count is 1
C15_Witness ==
    /\ pc = "done"
    /\ \E p \in nearby : \E r \in bus_routes :
          /\ Cardinality({ c \in AllQualifyingCombos :
                              c[1][1] = p /\ c[2].route_id = r }) >= 3
          /\ Cardinality({ k \in RecordsOf(p[2]) : transfers[k].bus_route_id = r }) >= 3
          /\ output[p[2]] = 1
          /\ total_transfer_opportunities >= 3

\* C17 (many-to-many matching): every bus stop forms a candidate pair with
\* each rail stop whose buffer it lies within, and in a finished run every
\* qualifying departure at a candidate pair has put its route among the
\* records of that pair's rail stop.
C17_ManyToMany ==
    /\ pc \in {"pairs", "done"} =>
          \A b \in bus_stops : \A i \in ion_stops :
              Within(stops[b], stops[i], args.buffer) => <<b, i>> \in nearby
    /\ pc = "done" =>
          \A p \in nearby :
          \A a \in ion_arr(ion_times, p[2]) : \A d \in bus_dep(bus_times, p[1]) :
              ValidTransfer(a, d, args.transfer_time) =>
                  /\ \E k \in RecordsOf(p[2]) : transfers[k].bus_route_id = d.route_id
                  /\ output[p[2]] >= 1

\* a finished run where one bus stop is paired with two rail stops and its
\* route is counted at both, and one rail stop is paired with two bus stops
C17_Witness ==
    /\ pc = "done"
    /\ \E b \in bus_stops : \E i1, i2 \in ion_stops :
          /\ i1 # i2
          /\ <<b, i1>> \in nearby /\ <<b, i2>> \in nearby
          /\ \E d \in bus_dep(bus_times, b) :
                /\ \E k \in RecordsOf(i1) : transfers[k].bus_route_id = d.route_id
                /\ \E k \in RecordsOf(i2) : transfers[k].bus_route_id = d.route_id
          /\ output[i1] >= 1 /\ output[i2] >= 1
    /\ \E i \in ion_stops : \E b1, b2 \in bus_stops :
          b1 # b2 /\ <<b1, i>> \in nearby /\ <<b2, i>> \in nearby

\* the index the single-radius pipeline gives for buffer r, as a function
\* of its inputs (C8)
SingleRadiusIndex(r) ==
    [s \in RailStops |->
        Cardinality({ d.route_id : d \in
            { d \in BusTimes(stop_times, args.time) :
                /\ Within(stops[d.stop_id], stops[s], r)
                /\ \E a \in IonTimes(stop_times, args.time) :
                      a.stop_id = s /\ ValidTransfer(a, d, args.transfer_time) } })]

\* C16 (sweep equals independent single runs): for every radius r the
\* sweep has evaluated, whatever radii came before it, the counts stored
\* for r are the counts of the single-radius pipeline with buffer r over
\* the same stops, events and threshold, for every rail stop.
C16_SweepEqualsSingleRuns ==
    \A r \in DOMAIN transfer_data : transfer_data[r] = SingleRadiusIndex(r)

\* a sweep past its third radius whose stored counts differ between two
\* radii, the later one with a positive count
C16_Witness ==
    /\ dist_i >= 4
    /\ \E r1, r2 \in DOMAIN transfer_data : \E s \in ion_stops :
          /\ r1 < r2
          /\ transfer_data[r1][s] < transfer_data[r2][s]
          /\ transfer_data[r2] = SingleRadiusIndex(r2)

\* C18 (no shared mutable state between sweep points): a step of a call of
\* calculate_transfers_for_distance leaves the stops, the rail and bus stop
\* sets and the arrival and departure lists unchanged; a call starts with
\* an empty transfers list and all the rows of its own join to visit; its
\* result counts the records of its own radius only, 0 for a rail stop
\* without one, and leaves the results of the radii before it unchanged.
C18_NoSharedState ==
    [][ /\ pc \in {"sjoin", "pairs"} =>
              UNCHANGED <<stops, stop_times, ion_stops, bus_stops, ion_times, bus_times>>
        /\ pc = "sjoin" => (transfers' = << >> /\ todo' = nearby')
        /\ (pc = "pairs" /\ pc' \in {"sjoin", "done"}) =>
              /\ transfer_data'[distances[dist_i]]
                    = [s \in ion_stops |-> nunique(transfers, s)]
              /\ \A r \in DOMAIN transfer_data : transfer_data'[r] = transfer_data[r]
      ]_vars

\* the call for the second radius has just started, with an empty
\* transfers list, after the first radius gave a rail stop a positive count
C18_Witness ==
    /\ dist_i = 2
    /\ pc = "pairs"
    /\ todo = nearby /\ nearby # {}
    /\ transfers = << >>
    /\ \E s \in ion_stops : transfer_data[distances[1]][s] > 0

\* elapsed seconds of a window bound written HH:MM:SS or HH:MM
WindowSeconds(w) ==
    3600 * (10 * w[1] + w[2]) + 60 * (10 * w[4] + w[5])
        + (IF Len(w) = 8 THEN 10 * w[7] + w[8] ELSE 0)

\* the clock string t is a time inside the closed window [start, end]
InClosedWindow(t, window) ==
    /\ MatchesClock(t)
    /\ WindowSeconds(window[1]) <= ElapsedSeconds(t)
    /\ ElapsedSeconds(t) <= WindowSeconds(window[2])

\* C20 (analysis-window filter): every rail arrival and every bus departure
\* that takes part in pairing has its time inside the closed window
\* [start, end], the same window for both, and every opportunity record
\* comes from an arrival and a departure of the feed that are both inside
\* the window; a departure after the end of the window is never counted.
C20_WindowFilter ==
    /\ \A r \in ion_times : InClosedWindow(r.arrival_time, args.time)
    /\ \A r \in bus_times : InClosedWindow(r.departure_time, args.time)
    /\ \A k \in 1..Len(transfers) :
          \E a \in st_with_routes(stop_times) : \E d \in st_with_routes(stop_times) :
              /\ a.route_id \in ion_routes /\ a.stop_id = transfers[k].ion_stop_id
              /\ d.route_id = transfers[k].bus_route_id
              /\ <<d.stop_id, a.stop_id>> \in nearby
              /\ InClosedWindow(a.arrival_time, args.time)
              /\ InClosedWindow(d.departure_time, args.time)
              /\ 0 <= ElapsedSeconds(d.departure_time) - ElapsedSeconds(a.arrival_time)
              /\ ElapsedSeconds(d.departure_time) - ElapsedSeconds(a.arrival_time)
                    <= 60 * args.transfer_time

\* a finished run with the window 07:00:00-09:00:00 and threshold 6: the
\* arrival 08:58:00 is paired with the departure at 09:00:00 exactly, and
\* the route whose only departure at a matched bus stop is 09:02:00 is not
\* counted
C20_Witness ==
    /\ pc = "done"
    /\ args.time = DefaultWindow
    /\ args.transfer_time = DEFAULT_MAX_TRANSFER_MINUTES
    /\ \E a \in ion_times : \E d \in bus_times :
          /\ a.arrival_time = Clock(8, 58, 0)
          /\ d.departure_time = DEFAULT_PEAK_END
          /\ <<d.stop_id, a.stop_id>> \in nearby
          /\ output[a.stop_id] = 1
          /\ \E q \in st_with_routes(stop_times) :
                /\ q.departure_time = Clock(9, 2, 0)
                /\ q.route_id \in bus_routes /\ q.route_id # d.route_id
                /\ <<q.stop_id, a.stop_id>> \in nearby
                /\ \A k \in RecordsOf(a.stop_id) : transfers[k].bus_route_id # q.route_id

\* the radii of the sweep
Radii == { distances[k] : k \in DOMAIN distances }

\* a finished multi-radius sweep has one entry for every radius, each
\* over every rail stop
SweepEntriesComplete ==
    (pc = "done" /\ transfer_data # << >>) =>
        /\ DOMAIN transfer_data = Radii
        /\ \A r \in Radii : DOMAIN transfer_data[r] = RailStops

\* the script-per-distance sweep goes through every radius whatever the
\* outcome of a radius, no temporary script is left between two radii or
\* at the end, and every radius of the slider has a map
MapsComplete ==
    /\ pc = "generate" => temp_scripts = {}
    /\ index_page # {} =>
          /\ pc = "done" /\ dist_i = Len(distances)
          /\ temp_scripts = {}
          /\ index_page \subseteq maps

\* C19 (sweep completeness): a finished multi-radius sweep has exactly one
\* entry per radius 50, 100, ..., 500, each over every rail stop; the
\* script-per-distance sweep processes every radius even after a failure,
\* removes the temporary script of every radius, and has generated a map
\* for every radius the slider of the index page can select.
C19_SweepComplete == SweepEntriesComplete /\ MapsComplete

=============================================================================
